---- MODULE Spec2Model ----
(***************************************************************************)
(* Model of python/lsst/sims/coordUtils/LsstCameraUtils.py: the cached     *)
(* per-detector bounding-circle map, the candidate shortlist built from    *)
(* it, and the batched membership search _findDetectorsListLSST.           *)
(*                                                                         *)
(* Coordinates are integers.  The camera is a small mosaic of four         *)
(* detectors, two ordinary ones that overlap and two wavefront ones that   *)
(* overlap, laid out so that every distance the code takes a square root   *)
(* of is a perfect square.                                                 *)
(***************************************************************************)
EXTENDS Integers, Sequences, FiniteSets, TLC

-----------------------------------------------------------------------------
(* Bounds of the model *)

\* longest batch of points passed to one call
MaxPts == 2

-----------------------------------------------------------------------------
(* The camera and the external geometry *)

\* detector type tags (lsst.afw.cameraGeom)
WAVEFRONT == "WAVEFRONT"
SCIENCE == "SCIENCE"

\* _lsst_camera: detectors in iteration order.  nx0, ny0 are the native
\* coordinates of pixel (0, 0); bbox is the pixel bounding box.
_lsst_camera ==
    [ focalScale |-> 2,
      detectors |-> <<
        [name |-> "A",  type |-> SCIENCE,   nx0 |-> 0,  ny0 |-> 0,
         bbox |-> [minX |-> 0, maxX |-> 12, minY |-> 0, maxY |-> 16]],
        [name |-> "B",  type |-> SCIENCE,   nx0 |-> 8,  ny0 |-> 0,
         bbox |-> [minX |-> 0, maxX |-> 12, minY |-> 0, maxY |-> 16]],
        [name |-> "W1", type |-> WAVEFRONT, nx0 |-> 8,  ny0 |-> 16,
         bbox |-> [minX |-> 0, maxX |-> 12, minY |-> 0, maxY |-> 16]],
        [name |-> "W2", type |-> WAVEFRONT, nx0 |-> 12, ny0 |-> 16,
         bbox |-> [minX |-> 0, maxX |-> 12, minY |-> 0, maxY |-> 16]] >> ]

NChips == Len(_lsst_camera.detectors)
DetNames == {_lsst_camera.detectors[i].name : i \in 1..NChips}

\* _lsst_camera[name]
CameraGet(name) ==
    _lsst_camera.detectors[CHOOSE i \in 1..NChips : _lsst_camera.detectors[i].name = name]

\* detector.getType()
getType(name) == CameraGet(name).type

\* _lsst_camera._transformSingleSysArray(pts, PUPIL, native), one point
NativeFromPupil(p) == <<_lsst_camera.focalScale * p[1], _lsst_camera.focalScale * p[2]>>

\* the pixel frame of a detector: native position q seen from chip det
PixelFrame(q, det) == <<q[1] - det.nx0, q[2] - det.ny0>>

\* coordMap.transform(pts, native, PIXELS) of one detector, one point
PixelFromNative(q, name) == PixelFrame(q, CameraGet(name))

\* Box2D.contains: half-open on both axes
Box2DContains(b, pt) ==
    /\ b.minX <= pt[1] /\ pt[1] < b.maxX
    /\ b.minY <= pt[2] /\ pt[2] < b.maxY

\* afwGeom.Box2D(detector.getBBox()).contains(pt)
BoxContains(name, pt) == Box2DContains(CameraGet(name).bbox, pt)

\* the four corners of a box in the order getCornerPixels gives them
BoxCorners(b) ==
    << <<b.minX, b.minY>>, <<b.minX, b.maxY>>, <<b.maxX, b.minY>>, <<b.maxX, b.maxY>> >>

\* getCornerPixels(chip_name, camera)
getCornerPixels(name) == BoxCorners(CameraGet(name).bbox)

\* the pupil position of pixel pix of chip det
PupilOfPixel(pix, det) ==
    << (pix[1] + det.nx0) \div _lsst_camera.focalScale,
       (pix[2] + det.ny0) \div _lsst_camera.focalScale >>

\* pupilCoordsFromPixelCoords for one pixel position of one chip
pupilCoordsFromPixelCoords(pix, name) == PupilOfPixel(pix, CameraGet(name))

\* np.sqrt on the values the camera produces (all perfect squares)
Sqrt(n) == CHOOSE r \in 0..n : r * r <= n /\ n < (r + 1) * (r + 1)

\* np.power(v, 2)
Sq(v) == v * v

-----------------------------------------------------------------------------
(* Values *)

\* an entry of outputNameList: None, a chip name, a python list of chip
\* names, or str() of such a list
NoneEntry == [kind |-> "None", names |-> <<>>]
NameEntry(n) == [kind |-> "name", names |-> <<n>>]
ListEntry(ns) == [kind |-> "list", names |-> ns]
StrOfList(ns) == [kind |-> "str(list)", names |-> ns]

\* _lsst_pupil_coord_map = None
NoMap == [built |-> FALSE, name |-> <<>>, xx |-> <<>>, yy |-> <<>>, dp |-> <<>>]

\* the numerator and denominator of the margin 1.1 of the shortlist test
MarginNum == 11
MarginDen == 10

\* pupil positions a caller may ask about:
\*   <<1, 4>>    inside A only,      in the margin circle of A
\*   <<5, 7>>    inside A and B,     in the margin circles of A, B, W1
\*   <<7, 9>>    inside W1 and W2,   in the margin circles of B, W1, W2
\*   <<11, 8>>   inside W2 only,     in the margin circle of W2
\*   <<4, 12>>   inside W1 only,     in the margin circles of W1, W2
\*   <<13, 12>>  inside no detector, in the margin circle of W2
\*   <<15, 2>>   inside no detector, in no margin circle
PupilPoints == { <<1, 4>>, <<5, 7>>, <<7, 9>>, <<11, 8>>, <<4, 12>>, <<13, 12>>, <<15, 2>> }

\* the telescope pointing of the observation, in sky coordinates
Pointing == <<100, 50>>

\* sky positions a caller may ask about
SkyPoints == { <<p[1] + Pointing[1], p[2] + Pointing[2]>> : p \in PupilPoints }

\* _pupilCoordsFromRaDec for one position
_pupilCoordsFromRaDec(s) == <<s[1] - Pointing[1], s[2] - Pointing[2]>>

\* sequences over S of length at most n
SeqUpTo(S, n) == UNION { [1..k -> S] : k \in 0..n }

\* the index sequence <<1, ..., n>>
Indices(n) == [i \in 1..n |-> i]

\* the elements of a sequence
Range(s) == {s[i] : i \in 1..Len(s)}

-----------------------------------------------------------------------------
(* State *)

VARIABLES
    coord_map,          \* the global _lsst_pupil_coord_map
    n_built,            \* how many times lines 75-79 have run
    pc,                 \* "idle", "resolve" (inside the loop of lines 125-154), "returned", "raised"
    call,               \* the entry point called last and its arguments
    detectorList,       \* _findDetectorsListLSST: one shortlist (names, in order) per point
    nativePointList,    \* _findDetectorsListLSST: the points in native coordinates
    outputNameList,
    chip_has_found,
    checked_detectors,
    could_be_multiple,
    cursor,             \* loop position: point ipt, and idet, the next element of detectorList[ipt]
    box_tests,          \* one record per coordMap.transform call: the detector and the points tested
    result,             \* the array returned by the call
    error,              \* the exception raised by the call
    prev                \* result of the preceding call when that was the same query

vars == << coord_map, n_built, pc, call, detectorList, nativePointList, outputNameList,
           chip_has_found, checked_detectors, could_be_multiple, cursor, box_tests,
           result, error, prev >>

NoCall == [fn |-> "none", shape |-> "arrays", pts |-> <<>>, allow |-> FALSE,
           lists |-> <<>>, obs |-> [isNone |-> TRUE, mjdIsNone |-> TRUE, rotSkyPosIsNone |-> TRUE],
           epochIsNone |-> TRUE]

NoPrev == [same |-> FALSE, result |-> <<>>]

Init ==
    /\ coord_map = NoMap
    /\ n_built = 0
    /\ pc = "idle"
    /\ call = NoCall
    /\ detectorList = <<>>
    /\ nativePointList = <<>>
    /\ outputNameList = <<>>
    /\ chip_has_found = <<>>
    /\ checked_detectors = <<>>
    /\ could_be_multiple = <<>>
    /\ cursor = [ipt |-> 1, idet |-> 0]
    /\ box_tests = <<>>
    /\ result = <<>>
    /\ error = "None"
    /\ prev = NoPrev

-----------------------------------------------------------------------------
(* _build_lsst_pupil_coord_map *)

\* `_lsst_pupil_coord_map is not None`
MapIsBuilt(m) == m.built

\* lines 36-51: x_pup_list, y_pup_list, name_list: four corners per chip,
\* chip after chip in camera order
PupList ==
    [ix \in 1..(4 * NChips) |->
        pupilCoordsFromPixelCoords(
            getCornerPixels(_lsst_camera.detectors[((ix - 1) \div 4) + 1].name)[((ix - 1) % 4) + 1],
            _lsst_camera.detectors[((ix - 1) \div 4) + 1].name)]

\* 0.25*(a + b + c + d)
Quarter(a, b, c, d) == (a + b + c + d) \div 4

\* lines 59-60: xx of the chip whose corners start at ix in pup
CenterX(pup, ix) == Quarter(pup[ix][1], pup[ix + 1][1], pup[ix + 2][1], pup[ix + 3][1])

\* lines 62-63
CenterY(pup, ix) == Quarter(pup[ix][2], pup[ix + 1][2], pup[ix + 2][2], pup[ix + 3][2])

\* lines 65-66: the distance of one corner from the center
CornerDistance(xx, yy, corner) == Sqrt(Sq(xx - corner[1]) + Sq(yy - corner[2]))

\* lines 65-66: the mean distance of the four corners from the center
Extent(pup, ix, xx, yy) ==
    Quarter(CornerDistance(xx, yy, pup[ix]), CornerDistance(xx, yy, pup[ix + 1]),
            CornerDistance(xx, yy, pup[ix + 2]), CornerDistance(xx, yy, pup[ix + 3]))

\* lines 52-79: the map made of the corner list pup
MapOf(pup) ==
    [ built |-> TRUE,
      name |-> [ix_ct \in 1..NChips |-> _lsst_camera.detectors[ix_ct].name],
      xx |-> [ix_ct \in 1..NChips |-> CenterX(pup, 4 * (ix_ct - 1) + 1)],
      yy |-> [ix_ct \in 1..NChips |-> CenterY(pup, 4 * (ix_ct - 1) + 1)],
      dp |-> [ix_ct \in 1..NChips |->
                Extent(pup, 4 * (ix_ct - 1) + 1,
                       CenterX(pup, 4 * (ix_ct - 1) + 1), CenterY(pup, 4 * (ix_ct - 1) + 1))] ]

\* lines 32-79: the map the function stores
BuiltMap == MapOf(PupList)

\* variant of BuildOutcome without the guard of lines 28-30
BuildOutcome_NoGuard(m) == [raised |-> FALSE, map |-> BuiltMap]

\* variant of BuildOutcome that empties the map before it raises
BuildOutcome_ClearsMap(m) ==
    IF MapIsBuilt(m)
    THEN [raised |-> TRUE, map |-> NoMap]
    ELSE [raised |-> FALSE, map |-> BuiltMap]

\* lines 28-79, as a function of the map found: the exception or the new map
BuildOutcome(m) ==
    IF MapIsBuilt(m)
    THEN [raised |-> TRUE, map |-> m]
    ELSE [raised |-> FALSE, map |-> BuiltMap]

-----------------------------------------------------------------------------
(* _findDetectorsListLSST *)

\* variant of CouldBeMultiple that does not look at the detector type
CouldBeMultiple_AnyType(lists, allow_multiple_chips) ==
    [ipt \in 1..Len(lists) |-> allow_multiple_chips /\ Len(lists[ipt]) > 0]

\* variant of CouldBeMultiple that does not look at allow_multiple_chips
CouldBeMultiple_IgnoreFlag(lists, allow_multiple_chips) ==
    [ipt \in 1..Len(lists) |->
        \E k \in 1..Len(lists[ipt]) : getType(lists[ipt][k]) = WAVEFRONT]

\* lines 118-123
CouldBeMultiple(lists, allow_multiple_chips) ==
    [ipt \in 1..Len(lists) |->
        /\ allow_multiple_chips
        /\ \E k \in 1..Len(lists[ipt]) : getType(lists[ipt][k]) = WAVEFRONT]

\* line 126: the shortlist of point ipt is walked only if this holds
PointIsOpen(out, ipt) == out[ipt] = NoneEntry

\* variant of NotChecked that forgets the detectors visited
NotChecked_Always(name, checked) == TRUE

\* line 128
NotChecked(name, checked) == name \notin Range(checked)

\* lines 125-128: from loop position c, the position of the next detector
\* that passes the test of line 128; ipt = Len(lists) + 1 when there is none.
\* idet = 0 stands for "line 126 not yet evaluated for point ipt".
RECURSIVE Advance(_, _, _, _)
Advance(c, lists, out, checked) ==
    IF c.ipt > Len(lists) THEN c
    ELSE IF c.idet = 0
         THEN IF PointIsOpen(out, c.ipt)
              THEN Advance([ipt |-> c.ipt, idet |-> 1], lists, out, checked)
              ELSE Advance([ipt |-> c.ipt + 1, idet |-> 0], lists, out, checked)
    ELSE IF c.idet > Len(lists[c.ipt])
         THEN Advance([ipt |-> c.ipt + 1, idet |-> 0], lists, out, checked)
    ELSE IF NotChecked(lists[c.ipt][c.idet], checked)
         THEN c
         ELSE Advance([ipt |-> c.ipt, idet |-> c.idet + 1], lists, out, checked)

\* variant of UnfoundPts that takes every point for unfound
UnfoundPts_All(found) == Indices(Len(found))

\* variant of UnfoundPts with the comparison turned round
UnfoundPts_Found(found) == SelectSeq(Indices(Len(found)), LAMBDA ii : found[ii] > 0)

\* line 130: np.where(chip_has_found < 0)[0], ascending
UnfoundPts(found) == SelectSeq(Indices(Len(found)), LAMBDA ii : found[ii] < 0)

\* variant of ValidPtDexes that does not consult the shortlists
ValidPtDexes_All(unfound_pts, detector, lists) == unfound_pts

\* variant of ValidPtDexes that takes every point listing the detector,
\* found or not
ValidPtDexes_Listed(unfound_pts, detector, lists) ==
    SelectSeq(Indices(Len(lists)), LAMBDA ii : detector \in Range(lists[ii]))

\* line 136
ValidPtDexes(unfound_pts, detector, lists) ==
    SelectSeq(unfound_pts, LAMBDA ii : detector \in Range(lists[ii]))

\* variant of DetectorPointList that takes the first points of the batch
\* instead of the points of valid_pt_dexes
DetectorPointList_Leading(valid_pt_dexes, detector, native) ==
    [k \in 1..Len(valid_pt_dexes) |-> PixelFromNative(native[k], detector)]

\* lines 138-141: the points of valid_pt_dexes in the detector's pixel frame
DetectorPointList(valid_pt_dexes, detector, native) ==
    [k \in 1..Len(valid_pt_dexes) |-> PixelFromNative(native[valid_pt_dexes[k]], detector)]

\* variant of ZipIndex that takes the position in valid_pt_dexes for the point
ZipIndex_Position(valid_pt_dexes, k) == k

\* line 143: zip pairs the k-th transformed point with valid_pt_dexes[k]
ZipIndex(valid_pt_dexes, k) == valid_pt_dexes[k]

\* lines 143-144: the points found inside the detector's box
PointsInside(valid_pt_dexes, detector, native) ==
    LET detectorPointList == DetectorPointList(valid_pt_dexes, detector, native)
    IN  { ZipIndex(valid_pt_dexes, k) : k \in
            {j \in 1..Len(valid_pt_dexes) : BoxContains(detector, detectorPointList[j])} }

\* variant of RecordMatch that starts the list at the first match
RecordMatch_ListAtOnce(old, name, multiple) ==
    IF ~multiple THEN NameEntry(name)
    ELSE IF old = NoneEntry THEN ListEntry(<<name>>)
    ELSE ListEntry(Append(old.names, name))

\* lines 145-154: the new entry of a point found inside the detector
RecordMatch(old, name, multiple) ==
    IF ~multiple THEN NameEntry(name)
    ELSE IF old = NoneEntry THEN NameEntry(name)
    ELSE IF old.kind = "list" THEN ListEntry(Append(old.names, name))
    ELSE ListEntry(<<old.names[1], name>>)

\* variant of MarkFound that leaves chip_has_found alone
MarkFound_Never(found, ix, multiple) == found[ix]

\* line 147
MarkFound(found, ix, multiple) == IF ~multiple THEN 1 ELSE found[ix]

\* variant of StrLists that leaves the lists as they are
StrLists_Skip(out) == out

\* lines 132-134 and 156-158
StrLists(out) ==
    [ix \in 1..Len(out) |-> IF out[ix].kind = "list" THEN StrOfList(out[ix].names) ELSE out[ix]]

\* lines 112-123: the locals at the top of the loop
ResolverEntry(cameraPointList, lists, allow_multiple_chips) ==
    /\ nativePointList' = [i \in 1..Len(cameraPointList) |-> NativeFromPupil(cameraPointList[i])]
    /\ detectorList' = lists
    /\ outputNameList' = [i \in 1..Len(cameraPointList) |-> NoneEntry]
    /\ chip_has_found' = [i \in 1..Len(cameraPointList) |-> -1]
    /\ checked_detectors' = <<>>
    /\ could_be_multiple' = CouldBeMultiple(lists, allow_multiple_chips)
    /\ cursor' = [ipt |-> 1, idet |-> 0]
    /\ box_tests' = <<>>
    /\ result' = <<>>
    /\ error' = "None"
    /\ pc' = "resolve"

\* the locals of a call that never reaches _findDetectorsListLSST
NoResolver ==
    /\ nativePointList' = <<>>
    /\ detectorList' = <<>>
    /\ outputNameList' = <<>>
    /\ chip_has_found' = <<>>
    /\ checked_detectors' = <<>>
    /\ could_be_multiple' = <<>>
    /\ cursor' = [ipt |-> 1, idet |-> 0]
    /\ box_tests' = <<>>
    /\ result' = <<>>

\* an exception leaves the call
Raise(msg) ==
    /\ NoResolver
    /\ error' = msg
    /\ pc' = "raised"

\* the next detector the loop visits
Here == Advance(cursor, detectorList, outputNameList, checked_detectors)

\* lines 129-135: a detector is visited when every point is already found
EarlyExit ==
    /\ pc = "resolve"
    /\ Here.ipt <= Len(detectorList)
    /\ UnfoundPts(chip_has_found) = <<>>
    /\ checked_detectors' = Append(checked_detectors, detectorList[Here.ipt][Here.idet])
    /\ outputNameList' = StrLists(outputNameList)
    /\ result' = StrLists(outputNameList)
    /\ cursor' = Here
    /\ pc' = "returned"
    /\ UNCHANGED << coord_map, n_built, call, detectorList, nativePointList, chip_has_found,
                    could_be_multiple, box_tests, error, prev >>

\* lines 129-154: a detector is visited and the open points that list it are tested
VisitDetector ==
    /\ pc = "resolve"
    /\ Here.ipt <= Len(detectorList)
    /\ UnfoundPts(chip_has_found) # <<>>
    /\ LET detector == detectorList[Here.ipt][Here.idet]
           valid_pt_dexes == ValidPtDexes(UnfoundPts(chip_has_found), detector, detectorList)
           inside == PointsInside(valid_pt_dexes, detector, nativePointList)
       IN  /\ checked_detectors' = Append(checked_detectors, detector)
           /\ box_tests' = IF Len(valid_pt_dexes) > 0
                           THEN Append(box_tests, [detector |-> detector, pts |-> valid_pt_dexes])
                           ELSE box_tests
           /\ outputNameList' =
                [ix \in 1..Len(outputNameList) |->
                    IF ix \in inside
                    THEN RecordMatch(outputNameList[ix], detector, could_be_multiple[ix])
                    ELSE outputNameList[ix]]
           /\ chip_has_found' =
                [ix \in 1..Len(chip_has_found) |->
                    IF ix \in inside
                    THEN MarkFound(chip_has_found, ix, could_be_multiple[ix])
                    ELSE chip_has_found[ix]]
    /\ cursor' = [ipt |-> Here.ipt, idet |-> Here.idet + 1]
    /\ UNCHANGED << coord_map, n_built, pc, call, detectorList, nativePointList,
                    could_be_multiple, result, error, prev >>

\* lines 156-160: the loop is over
FinishLoop ==
    /\ pc = "resolve"
    /\ Here.ipt > Len(detectorList)
    /\ outputNameList' = StrLists(outputNameList)
    /\ result' = StrLists(outputNameList)
    /\ cursor' = Here
    /\ pc' = "returned"
    /\ UNCHANGED << coord_map, n_built, call, detectorList, nativePointList, chip_has_found,
                    checked_detectors, could_be_multiple, box_tests, error, prev >>

-----------------------------------------------------------------------------
(* chipNameFromPupilCoordsLSST and _chipNameFromRaDecLSST *)

\* _validate_inputs: "raise" for arrays of different lengths, else are_arrays
ValidateInputs(shape) ==
    IF shape = "mismatch" THEN "raise"
    ELSE IF shape = "arrays" THEN "arrays"
    ELSE "scalars"

\* variant of FacadeNeedsBuild that builds on every call
FacadeNeedsBuild_Always(m) == TRUE

\* line 186
FacadeNeedsBuild(m) == ~MapIsBuilt(m)

\* lines 198-199: chip ii is a candidate for the point.  The code compares
\* sqrt(d2)/dp with 1.1; both sides are squared here to stay in the integers.
InMarginCircle(p, m, ii) ==
    MarginDen * MarginDen * (Sq(p[1] - m.xx[ii]) + Sq(p[2] - m.yy[ii]))
        < MarginNum * MarginNum * Sq(m.dp[ii])

\* lines 198-201: the shortlist of one point, in the order of the map
LocalValid(p, m) ==
    LET possible_dexes == SelectSeq(Indices(Len(m.name)), LAMBDA ii : InMarginCircle(p, m, ii))
    IN  [k \in 1..Len(possible_dexes) |-> m.name[possible_dexes[k]]]

\* lines 196-202
ValidDetectors(pts, m) == [i \in 1..Len(pts) |-> LocalValid(pts[i], m)]

\* the batches a caller may pass for each shape of the coordinate arguments
Shapes == {"arrays", "scalars", "mismatch"}
Batches(shape, S) ==
    IF shape = "arrays" THEN SeqUpTo(S, MaxPts)
    ELSE IF shape = "scalars" THEN [1..1 -> S]
    ELSE {<<>>}

\* a set of detectors listed in camera order
CameraOrdered(S) ==
    LET dexes == SelectSeq(Indices(NChips), LAMBDA i : _lsst_camera.detectors[i].name \in S)
    IN  [k \in 1..Len(dexes) |-> _lsst_camera.detectors[dexes[k]].name]

\* the shortlists a direct caller of _findDetectorsListLSST may pass for a
\* point: any selection of the detectors whose margin circle holds the point
\* (the list the docstring asks for, or a narrower one), in camera order
Shortlists(p) == { CameraOrdered(S) : S \in SUBSET Range(LocalValid(p, BuiltMap)) }

\* a point with a shortlist for it
PointsWithShortlist ==
    UNION { { [pt |-> p, list |-> l] : l \in Shortlists(p) } : p \in PupilPoints }

\* no call is running and the last one has been left
Quiet == pc = "idle"

\* lines 186-187: what the call of the builder, if any, leaves
LazyBuild(m) ==
    IF FacadeNeedsBuild(m) THEN BuildOutcome(m) ELSE [raised |-> FALSE, map |-> m]

\* variant of NotArrays that lets scalars through
NotArrays_Never(are_arrays) == FALSE

\* line 191: not are_arrays
NotArrays(are_arrays) == are_arrays # "arrays"

\* variant of PupilRest that looks at the inputs before it stores the map
PupilRest_ValidateFirst(outcome, shape, xy, allow) ==
    IF ValidateInputs(shape) = "raise"
    THEN Raise("_validate_inputs") /\ UNCHANGED << coord_map, n_built >>
    ELSE IF NotArrays(ValidateInputs(shape))
    THEN Raise("must be in numpy arrays") /\ UNCHANGED << coord_map, n_built >>
    ELSE /\ coord_map' = outcome.map
         /\ n_built' = IF outcome.map # coord_map THEN n_built + 1 ELSE n_built
         /\ IF outcome.raised
            THEN Raise("_build_pupil_coord_map: already built")
            ELSE ResolverEntry(xy, ValidDetectors(xy, outcome.map), allow)

\* lines 189-204 for pupil positions xy, after lines 186-187 left outcome
PupilRest(outcome, shape, xy, allow) ==
    /\ coord_map' = outcome.map
    /\ n_built' = IF outcome.map # coord_map THEN n_built + 1 ELSE n_built
    /\ IF outcome.raised
       THEN Raise("_build_pupil_coord_map: already built")
       ELSE IF ValidateInputs(shape) = "raise"
       THEN Raise("_validate_inputs")
       ELSE IF NotArrays(ValidateInputs(shape))
       THEN Raise("must be in numpy arrays")
       ELSE ResolverEntry(xy, ValidDetectors(xy, outcome.map), allow)

\* lines 185-204 for pupil positions xy
PupilBody(shape, xy, allow) == PupilRest(LazyBuild(coord_map), shape, xy, allow)

\* lines 28-79 seen from the caller: the exception or the new map
BuildLeaves(outcome) ==
    /\ coord_map' = outcome.map
    /\ n_built' = IF outcome.raised THEN n_built ELSE n_built + 1
    /\ NoResolver
    /\ error' = IF outcome.raised THEN "_build_pupil_coord_map: already built" ELSE "None"
    /\ pc' = IF outcome.raised THEN "raised" ELSE "returned"

\* a direct call of _build_lsst_pupil_coord_map()
BuildCall ==
    /\ Quiet
    /\ BuildLeaves(BuildOutcome(coord_map))
    /\ call' = [NoCall EXCEPT !.fn = "build"]
    /\ prev' = NoPrev

\* a call of chipNameFromPupilCoordsLSST(xPupil, yPupil, allow_multiple_chips)
PupilCall ==
    /\ Quiet
    /\ \E shape \in Shapes, allow \in BOOLEAN :
         \E xy \in Batches(shape, PupilPoints) :
           LET c == [NoCall EXCEPT !.fn = "pupil", !.shape = shape, !.pts = xy, !.allow = allow]
           IN  /\ call' = c
               /\ prev' = NoPrev
               /\ PupilBody(shape, xy, allow)

\* the caller repeats the call of chipNameFromPupilCoordsLSST that has just
\* returned, with the same arguments
PupilCallAgain ==
    /\ pc = "returned"
    /\ call.fn = "pupil"
    /\ call' = call
    /\ prev' = [same |-> TRUE, result |-> result]
    /\ PupilBody(call.shape, call.pts, call.allow)

\* the caller takes the result or the exception; the locals of the call are gone
CallEnds ==
    /\ pc \in {"returned", "raised"}
    /\ pc' = "idle"
    /\ call' = NoCall
    /\ NoResolver
    /\ error' = "None"
    /\ prev' = NoPrev
    /\ UNCHANGED << coord_map, n_built >>

\* the observation contexts a caller may pass
ObsMetaData == [isNone : {FALSE}, mjdIsNone : BOOLEAN, rotSkyPosIsNone : BOOLEAN]
                 \cup {NoCall.obs}

\* variant of RaDecCheck without the test of lines 245-246
RaDecCheck_NoRotSkyPos(shape, obs, epochIsNone) ==
    IF ValidateInputs(shape) = "raise" THEN "_validate_inputs"
    ELSE IF epochIsNone THEN "You need to pass an epoch"
    ELSE IF obs.isNone THEN "You need to pass an ObservationMetaData"
    ELSE IF obs.mjdIsNone THEN "You need to pass an ObservationMetaData with an mjd"
    ELSE "None"

\* lines 234-246: the message of the exception raised, "None" when none is
RaDecCheck(shape, obs, epochIsNone) ==
    IF ValidateInputs(shape) = "raise" THEN "_validate_inputs"
    ELSE IF epochIsNone THEN "You need to pass an epoch"
    ELSE IF obs.isNone THEN "You need to pass an ObservationMetaData"
    ELSE IF obs.mjdIsNone THEN "You need to pass an ObservationMetaData with an mjd"
    ELSE IF obs.rotSkyPosIsNone THEN "You need to pass an ObservationMetaData with a rotSkyPos"
    ELSE "None"

\* a call of _chipNameFromRaDecLSST(ra, dec, obs_metadata, epoch, allow_multiple_chips)
RaDecCall ==
    /\ Quiet
    /\ \E shape \in Shapes, allow \in BOOLEAN, obs \in ObsMetaData, epochIsNone \in BOOLEAN :
         \E radec \in Batches(shape, SkyPoints) :
           /\ call' = [NoCall EXCEPT !.fn = "radec", !.shape = shape, !.pts = radec,
                                     !.allow = allow, !.obs = obs, !.epochIsNone = epochIsNone]
           /\ prev' = NoPrev
           /\ IF RaDecCheck(shape, obs, epochIsNone) # "None"
              THEN /\ Raise(RaDecCheck(shape, obs, epochIsNone))
                   /\ UNCHANGED << coord_map, n_built >>
              ELSE PupilBody(shape, [i \in 1..Len(radec) |-> _pupilCoordsFromRaDec(radec[i])], allow)

\* a direct call of _findDetectorsListLSST(cameraPointList, detectorList, allow_multiple_chips)
ResolverCall ==
    /\ Quiet
    /\ \E allow \in BOOLEAN, args \in SeqUpTo(PointsWithShortlist, MaxPts) :
         LET xy == [i \in 1..Len(args) |-> args[i].pt]
             lists == [i \in 1..Len(args) |-> args[i].list]
         IN  /\ call' = [NoCall EXCEPT !.fn = "resolver", !.pts = xy, !.allow = allow,
                                       !.lists = lists]
             /\ ResolverEntry(xy, lists, allow)
    /\ prev' = NoPrev
    /\ UNCHANGED << coord_map, n_built >>

Next ==
    \/ BuildCall
    \/ PupilCall
    \/ PupilCallAgain
    \/ RaDecCall
    \/ ResolverCall
    \/ EarlyExit
    \/ VisitDetector
    \/ FinishLoop
    \/ CallEnds

Spec == Init /\ [][Next]_vars

-----------------------------------------------------------------------------
(* Vocabulary of the properties *)

\* the call is one that runs _findDetectorsListLSST
IsQuery == call.fn \in {"pupil", "radec", "resolver"}

\* _findDetectorsListLSST is running or has returned
InResolver == IsQuery /\ pc \in {"resolve", "returned"}

\* _findDetectorsListLSST has returned its array
Done == IsQuery /\ pc = "returned"

\* the pupil position of input point i of the call
QueryPoint(i) == IF call.fn = "radec" THEN _pupilCoordsFromRaDec(call.pts[i]) ELSE call.pts[i]

\* the detectors whose pixel bounding box contains input point i
Contained(i) ==
    { d \in DetNames : BoxContains(d, PixelFromNative(NativeFromPupil(QueryPoint(i)), d)) }

\* the detectors of the shortlist of point i
InList(i) == Range(detectorList[i])

\* the detectors of the shortlist of point i that contain it
Matches(i) == Contained(i) \cap InList(i)

\* point i may be reported on several chips: multiple chips are allowed and
\* its shortlist holds a wavefront sensor
Eligible(i) == call.allow /\ \E d \in InList(i) : getType(d) = WAVEFRONT

\* the first element of sequence s that is in S
FirstIn(s, S) == s[CHOOSE k \in 1..Len(s) : s[k] \in S /\ \A j \in 1..(k - 1) : s[j] \notin S]

\* the points that have been tested against some detector's box
TestedPoints == UNION { Range(box_tests[k].pts) : k \in 1..Len(box_tests) }

TypeOK ==
    /\ pc \in {"idle", "resolve", "returned", "raised"}
    /\ n_built \in 0..1
    /\ Len(outputNameList) = Len(detectorList)
    /\ Len(chip_has_found) = Len(detectorList)
    /\ Done => Len(result) = Len(call.pts)

-----------------------------------------------------------------------------
(* C1 *)

\* C1: when _findDetectorsListLSST returns, a point that is inside the box
\* of exactly one detector D and whose shortlist is just D has the single
\* name of D as its result, whatever allow_multiple_chips is and whatever
\* the other points of the batch are.
C1_SoleDetector ==
    Done =>
        \A i \in 1..Len(call.pts) : \A d \in DetNames :
            (Contained(i) = {d} /\ detectorList[i] = <<d>>) => result[i] = NameEntry(d)

\* a two-point call with multiple chips allowed has returned, and one of its
\* points lies in one wavefront sensor only, its whole shortlist
C1_Witness ==
    /\ Done
    /\ call.allow
    /\ Len(call.pts) = 2
    /\ \E i \in 1..2 : \E d \in DetNames :
          /\ getType(d) = WAVEFRONT
          /\ Contained(i) = {d}
          /\ detectorList[i] = <<d>>
          /\ result[i] = NameEntry(d)

-----------------------------------------------------------------------------
(* C2 *)

\* C2: with allow_multiple_chips=True, a point inside the boxes of two
\* wavefront detectors that are both in its shortlist gets a composite
\* result naming both, whatever the other points of the batch are.
C2_TwoWavefrontComposite ==
    (Done /\ call.allow) =>
        \A i \in 1..Len(call.pts) : \A w1, w2 \in Matches(i) :
            (w1 # w2 /\ getType(w1) = WAVEFRONT /\ getType(w2) = WAVEFRONT)
                => /\ result[i].kind = "str(list)"
                   /\ {w1, w2} \subseteq Range(result[i].names)

-----------------------------------------------------------------------------
(* C3 *)

-----------------------------------------------------------------------------
(* C4 *)

\* C4 as stated: a point that is not eligible for multiple membership and is
\* contained in more than one detector of its shortlist gets the first
\* detector of its own shortlist that contains it.
C4_FirstOfOwnShortlist ==
    Done =>
        \A i \in 1..Len(call.pts) :
            (~Eligible(i) /\ Cardinality(Matches(i)) > 1)
                => result[i] = NameEntry(FirstIn(detectorList[i], Contained(i)))

\* C4 amended: such a point gets the detector the resolver visited first
\* (checked_detectors keeps the order of the visits) among the detectors of
\* its shortlist that contain it.
C4_FirstVisited ==
    Done =>
        \A i \in 1..Len(call.pts) :
            (~Eligible(i) /\ Cardinality(Matches(i)) > 1)
                => /\ Matches(i) \cap Range(checked_detectors) # {}
                   /\ result[i] = NameEntry(FirstIn(checked_detectors, Matches(i)))

\* a call has returned in which a point that several detectors of its
\* shortlist contain got one that is not the first of its own shortlist
C4_Witness ==
    /\ Done
    /\ \E i \in 1..Len(call.pts) :
          /\ ~Eligible(i)
          /\ Cardinality(Matches(i)) > 1
          /\ result[i] = NameEntry(FirstIn(checked_detectors, Matches(i)))
          /\ result[i] # NameEntry(FirstIn(detectorList[i], Contained(i)))

-----------------------------------------------------------------------------
(* C5 *)

-----------------------------------------------------------------------------
(* C6 *)

\* point i of the call lies outside the margin-scaled circle of every chip
OutsideEveryCircle(i) ==
    \A ii \in 1..NChips : ~InMarginCircle(QueryPoint(i), BuiltMap, ii)

\* C6: a point with an empty shortlist is never tested against a detector's
\* box and keeps None, in every state of the resolver and in the returned
\* array; and when the call came through chipNameFromPupilCoordsLSST, a
\* point outside every margin-scaled circle has an empty shortlist.
C6_OutsideIsNone ==
    InResolver =>
        \A i \in 1..Len(call.pts) :
            /\ (call.fn # "resolver" /\ OutsideEveryCircle(i)) => detectorList[i] = <<>>
            /\ detectorList[i] = <<>> =>
                  /\ outputNameList[i] = NoneEntry
                  /\ i \notin TestedPoints
                  /\ pc = "returned" => result[i] = NoneEntry

\* a call of chipNameFromPupilCoordsLSST has returned, one of its points
\* lies outside every circle and got None, and the other point got a name
C6_Witness ==
    /\ Done
    /\ call.fn = "pupil"
    /\ Len(call.pts) = 2
    /\ \E i, j \in 1..2 :
          /\ OutsideEveryCircle(i)
          /\ result[i] = NoneEntry
          /\ result[j].kind = "name"
          /\ j \in TestedPoints

-----------------------------------------------------------------------------
(* C7 *)

\* C7: on both return paths the returned array has one entry per input
\* point, and entry i belongs to input point i: it names only detectors of
\* the shortlist of point i that contain point i, and it is None only if
\* there is no such detector.
C7_OrderPreserved ==
    Done =>
        /\ Len(result) = Len(call.pts)
        /\ \A i \in 1..Len(call.pts) :
              /\ Range(result[i].names) \subseteq Matches(i)
              /\ (result[i] = NoneEntry) <=> (Matches(i) = {})

\* the call has returned through the early exit (the cursor still points at
\* a detector) with two points that got different names
C7_Witness ==
    /\ Done
    /\ Len(call.pts) = 2
    /\ cursor.ipt <= Len(call.pts)
    /\ result[1].kind = "name"
    /\ result[2].kind = "name"
    /\ result[1] # result[2]

\* the call has returned for an empty batch
C7_WitnessEmpty == Done /\ call.shape = "arrays" /\ Len(call.pts) = 0 /\ result = <<>>

-----------------------------------------------------------------------------
(* C8 *)

\* C8: the map is constructed at most once, and a call of
\* _build_lsst_pupil_coord_map that finds it built raises and leaves it as
\* it was.
C8_BuildOnce ==
    /\ [](n_built <= 1)
    /\ [][ (coord_map # NoMap /\ call'.fn = "build")
             => (pc' = "raised" /\ coord_map' = coord_map /\ n_built' = n_built) ]_vars

\* a call of _build_lsst_pupil_coord_map has raised
C8_Witness ==
    /\ call.fn = "build"
    /\ pc = "raised"
    /\ coord_map = BuiltMap
    /\ n_built = 1

-----------------------------------------------------------------------------
(* C9 *)

\* C9: when chipNameFromPupilCoordsLSST is called again with the arguments
\* of the call that has just returned, the second call does not raise, does
\* not construct the map again, and returns the array the first returned.
C9_Idempotent ==
    prev.same =>
        /\ pc # "raised"
        /\ n_built = 1
        /\ coord_map = BuiltMap
        /\ pc = "returned" => result = prev.result

\* the repeated call has returned an array with a composite entry
C9_Witness ==
    /\ prev.same
    /\ pc = "returned"
    /\ Len(result) = 2
    /\ \E i \in 1..2 : result[i].kind = "str(list)"

-----------------------------------------------------------------------------
(* C10 *)

\* C10: a call of _chipNameFromRaDecLSST without obs_metadata, or with an
\* obs_metadata that has no mjd or no rotSkyPos, raises and leaves the map
\* as it was, built or not.
C10_RaDecNeedsContext ==
    [][ ( /\ call'.fn = "radec"
          /\ pc = "idle"
          /\ (call'.obs.isNone \/ call'.obs.mjdIsNone \/ call'.obs.rotSkyPosIsNone) )
          => (pc' = "raised" /\ error' # "None" /\ coord_map' = coord_map /\ n_built' = n_built) ]_vars

\* a call with arrays, an epoch and an obs_metadata that lacks only its
\* rotSkyPos has raised, and the map is still not built
C10_Witness ==
    /\ call.fn = "radec"
    /\ pc = "raised"
    /\ call.shape = "arrays"
    /\ ~call.epochIsNone
    /\ ~call.obs.isNone
    /\ ~call.obs.mjdIsNone
    /\ call.obs.rotSkyPosIsNone
    /\ coord_map = NoMap

-----------------------------------------------------------------------------
(* C11 *)

\* C11: a call of chipNameFromPupilCoordsLSST whose xPupil and yPupil are
\* scalars raises the RuntimeError of line 192 and hands back no result;
\* _findDetectorsListLSST is not entered: none of its locals exists and no
\* detector is visited or tested.
C11_ScalarsRaise ==
    (call.fn = "pupil" /\ call.shape = "scalars") =>
        /\ pc = "raised"
        /\ error = "must be in numpy arrays"
        /\ result = <<>>
        /\ detectorList = <<>>
        /\ outputNameList = <<>>
        /\ checked_detectors = <<>>
        /\ box_tests = <<>>

\* a call with one scalar position inside detector A has raised
C11_Witness ==
    /\ call.fn = "pupil"
    /\ call.shape = "scalars"
    /\ call.pts = << <<1, 4>> >>
    /\ pc = "raised"
    /\ error = "must be in numpy arrays"

-----------------------------------------------------------------------------
(* C12 *)

\* C12: _chipNameFromRaDecLSST takes ra and dec as floats as well as arrays
\* (docstring, lines 214-218): a call with scalar ra and dec, an epoch and an
\* obs_metadata that has its mjd and its rotSkyPos does not raise.
C12_ScalarRaDecReturns ==
    ( /\ call.fn = "radec"
      /\ call.shape = "scalars"
      /\ ~call.epochIsNone
      /\ ~call.obs.isNone
      /\ ~call.obs.mjdIsNone
      /\ ~call.obs.rotSkyPosIsNone ) => pc # "raised"

-----------------------------------------------------------------------------
(* C13 *)

\* the points of the containment test a step adds, none when it adds no test
NewlyTested ==
    IF Len(box_tests') > Len(box_tests) THEN Range(box_tests'[Len(box_tests')].pts) ELSE {}

\* C13: while _findDetectorsListLSST runs, a point that is not eligible for
\* multiple membership and has a detector name is marked found
\* (chip_has_found = 1), and a step of the loop neither changes its entry
\* nor puts it in the containment test of the detector visited.
C13_ResolvedStaysPut ==
    [][ (IsQuery /\ pc = "resolve") =>
          \A i \in 1..Len(outputNameList) :
              (~Eligible(i) /\ outputNameList[i] # NoneEntry) =>
                  /\ chip_has_found[i] = 1
                  /\ outputNameList'[i] = outputNameList[i]
                  /\ chip_has_found'[i] = 1
                  /\ i \notin NewlyTested ]_vars

\* a point that is not eligible got the name of the first detector visited,
\* and a detector visited later, which contains it and is in its shortlist,
\* was tested against another point only
C13_Witness ==
    /\ InResolver
    /\ \E i \in 1..Len(outputNameList) : \E k \in 2..Len(box_tests) :
          /\ ~Eligible(i)
          /\ outputNameList[i] = NameEntry(box_tests[1].detector)
          /\ box_tests[k].detector \in Matches(i)
          /\ i \notin Range(box_tests[k].pts)

-----------------------------------------------------------------------------
(* C14 *)

\* the loop stands before a detector it has not visited yet
AtUnvisitedDetector == IsQuery /\ pc = "resolve" /\ Here.ipt <= Len(detectorList)

\* C14: whatever allow_multiple_chips is, when the loop reaches a detector
\* it has not visited and no entry of outputNameList is None, the step it
\* takes returns and adds no containment test.
C14_ExitWhenAllHaveResult ==
    [][ (AtUnvisitedDetector /\ \A i \in 1..Len(outputNameList) : outputNameList[i] # NoneEntry)
          => (pc' = "returned" /\ box_tests' = box_tests) ]_vars

\* C14 as the code has it: the exit of lines 131-135 is taken when every
\* point is marked found, that is when every point has a result and none of
\* them is eligible for multiple membership; the step then returns the
\* entries as they are and adds no containment test.
C14_ExitWhenAllFound ==
    [][ (AtUnvisitedDetector /\ \A i \in 1..Len(outputNameList) :
                                   outputNameList[i] # NoneEntry /\ ~Eligible(i))
          => /\ pc' = "returned"
             /\ box_tests' = box_tests
             /\ result' = outputNameList ]_vars

\* with allow_multiple_chips = True, a call on two points has returned from
\* inside the loop: the last detector reached was never tested
C14_Witness ==
    /\ Done
    /\ call.allow
    /\ Len(call.pts) = 2
    /\ cursor.ipt <= Len(detectorList)
    /\ Len(checked_detectors) > Len(box_tests)
    /\ \A k \in 1..Len(box_tests) :
          box_tests[k].detector # checked_detectors[Len(checked_detectors)]
    /\ \A i \in 1..Len(result) : result[i].kind = "name"

-----------------------------------------------------------------------------
(* C15 *)

\* no element occurs twice in sequence s
NoRepeat(s) == \A j, k \in 1..Len(s) : s[j] = s[k] => j = k

\* C15: during a call of _findDetectorsListLSST no detector name is visited
\* twice, a detector has at most one containment test, and no point occurs
\* twice in the points of a test.
C15_VisitedOnce ==
    InResolver =>
        /\ NoRepeat(checked_detectors)
        /\ NoRepeat([k \in 1..Len(box_tests) |-> box_tests[k].detector])
        /\ \A k \in 1..Len(box_tests) : NoRepeat(box_tests[k].pts)

\* two points list the same detector, which does not contain the first; it
\* was visited once, for both points together, and the second point was
\* still open when the loop came to its shortlist
C15_Witness ==
    /\ Done
    /\ Len(call.pts) = 2
    /\ \E d \in InList(1) \cap InList(2) :
          /\ d \notin Contained(1)
          /\ \E k \in 1..Len(box_tests) :
                box_tests[k] = [detector |-> d, pts |-> <<1, 2>>]
    /\ result[2] = NoneEntry
    /\ Len(checked_detectors) >= 2

-----------------------------------------------------------------------------
(* C16 *)

\* the detectors whose containment test found point i inside, in the order
\* of the tests
Hits(i) ==
    LET found == SelectSeq(box_tests,
                           LAMBDA t : i \in Range(t.pts) /\ t.detector \in Contained(i))
    IN  [k \in 1..Len(found) |-> found[k].detector]

\* C16: in the array _findDetectorsListLSST returns, by either return, no
\* entry is a list; a point found inside two or more detectors has the one
\* string made of exactly those detectors, each once, in the order they
\* were visited; a point found inside none has None.
C16_ListsBecomeStrings ==
    Done =>
        \A i \in 1..Len(result) :
            /\ result[i].kind # "list"
            /\ outputNameList[i].kind # "list"
            /\ Len(Hits(i)) >= 2 => (result[i] = StrOfList(Hits(i)) /\ NoRepeat(Hits(i)))
            /\ Len(Hits(i)) = 0 => result[i] = NoneEntry

\* of two points, one was found inside two detectors and has the string of
\* both, the other was tested and found inside none
C16_Witness ==
    /\ Done
    /\ Len(result) = 2
    /\ \E i, j \in 1..2 :
          /\ Len(Hits(i)) = 2
          /\ result[i].kind = "str(list)"
          /\ j \in TestedPoints
          /\ Hits(j) = <<>>
          /\ result[j] = NoneEntry

-----------------------------------------------------------------------------
(* C17 *)

\* C17: once _lsst_pupil_coord_map is built, no step changes it: a call of
\* either facade or of the resolver, returning or raising, and a rejected
\* call of the builder leave the names, centers and radii at the values the
\* construction stored.
C17_MapFrozen ==
    [][ coord_map # NoMap =>
          /\ coord_map' = coord_map
          /\ coord_map'.name = BuiltMap.name
          /\ coord_map'.xx = BuiltMap.xx
          /\ coord_map'.yy = BuiltMap.yy
          /\ coord_map'.dp = BuiltMap.dp ]_vars

\* with the map built by one construction, a query with scalars has raised
C17_Witness ==
    /\ call.fn \in {"pupil", "radec"}
    /\ call.shape = "scalars"
    /\ pc = "raised"
    /\ n_built = 1
    /\ coord_map = BuiltMap
    /\ coord_map.name = <<"A", "B", "W1", "W2">>

-----------------------------------------------------------------------------
(* C18 *)

\* C18: at every step of _findDetectorsListLSST and in the array it
\* returns, every name recorded for a point is a detector of that point's
\* own shortlist whose box contains the point, and every containment test
\* run so far took only points whose shortlist holds the detector tested.
C18_Sound ==
    InResolver =>
        /\ \A i \in 1..Len(outputNameList) :
              Range(outputNameList[i].names) \subseteq Matches(i)
        /\ \A i \in 1..Len(result) : Range(result[i].names) \subseteq Matches(i)
        /\ \A k \in 1..Len(box_tests) : \A i \in Range(box_tests[k].pts) :
              box_tests[k].detector \in InList(i)

\* while the loop runs, a detector that contains both points has been tested
\* for the one point that lists it and named for that point only
C18_Witness ==
    /\ IsQuery
    /\ pc = "resolve"
    /\ Len(outputNameList) = 2
    /\ \E d \in Contained(1) \cap Contained(2) :
          /\ d \in InList(2) \ InList(1)
          /\ box_tests = << [detector |-> d, pts |-> <<2>>] >>
          /\ outputNameList = << NoneEntry, NameEntry(d) >>

-----------------------------------------------------------------------------
(* C19 *)

\* C19: in the array _findDetectorsListLSST returns, the entry of a point
\* is None exactly when no detector of its shortlist contains it; a point
\* that a detector of its shortlist contains has a result, whether the call
\* left by the early exit or not and whichever detectors were skipped as
\* already visited.
C19_NoneIffNoMatch ==
    Done =>
        \A i \in 1..Len(result) : (result[i] = NoneEntry) <=> (Matches(i) = {})

\* the call returned by the early exit; the second point got its name on
\* the visit made for the first point, which lists the same detector, and
\* the loop never came to the second point's shortlist
C19_Witness ==
    /\ Done
    /\ Len(result) = 2
    /\ cursor.ipt = 1
    /\ Matches(2) # {}
    /\ result[2].kind = "name"
    /\ result[1].kind = "name"
    /\ result[1] # result[2]
    /\ Len(checked_detectors) > Len(box_tests)

\* a point whose shortlist is not empty was tested against a detector and
\* is reported as None, next to a point that has a name
C19_WitnessNone ==
    /\ Done
    /\ Len(result) = 2
    /\ \E i, j \in 1..2 :
          /\ detectorList[i] # <<>>
          /\ i \in TestedPoints
          /\ result[i] = NoneEntry
          /\ result[j].kind = "name"

-----------------------------------------------------------------------------
(* C20 *)

\* chipNameFromPupilCoordsLSST has been entered: called by name, or by
\* _chipNameFromRaDecLSST after its own checks passed
FacadeEntered ==
    \/ call.fn = "pupil"
    \/ call.fn = "radec" /\ RaDecCheck(call.shape, call.obs, call.epochIsNone) = "None"

\* C20: chipNameFromPupilCoordsLSST builds the map before it looks at its
\* inputs: after any call of it, also one that raises because the inputs
\* are scalars or of different lengths, the map is built.
C20_BuiltBeforeValidation ==
    FacadeEntered => (MapIsBuilt(coord_map) /\ coord_map = BuiltMap /\ n_built = 1)

\* a call with scalars has raised and the map is built
C20_Witness ==
    /\ call.fn = "pupil"
    /\ call.shape = "scalars"
    /\ pc = "raised"
    /\ error = "must be in numpy arrays"
    /\ MapIsBuilt(coord_map)

====
